---- MODULE Spec2Model ----
(***************************************************************************)
(* Model of src/models/Discriminator.py: the Discriminator module (five    *)
(* convolutional stages, a global average pool, and the two heads          *)
(* `probabilities` and `styles`), its forward pass with the shape          *)
(* assertions, and display_gradients.  Tensors are modelled by their       *)
(* shapes in the life-cycle specification Spec; the values produced by the *)
(* two heads are modelled in SpecHeads with exact rational arithmetic      *)
(* (base 2 instead of base e: the normalisation structure is the same).    *)
(***************************************************************************)
EXTENDS Integers, Sequences, FiniteSets, TLC

\* ---- bounds of the model ----
MaxBatch == 2        \* largest batch size N fed to forward
MaxClasses == 2      \* largest style_classes passed to the constructor
MaxTracked == 2      \* cap on num_batches_tracked (training-mode forwards)

VARIABLES obj, style_classes, training, params, bn, grads, backs, fwd, disp, head

vars == <<obj, style_classes, training, params, bn, grads, backs, fwd, disp, head>>

\* ---- primitive modules (torch.nn), by the attributes the source sets ----
Conv2d(i, o, k, s, p) ==
    [type |-> "Conv2d", in_channels |-> i, out_channels |-> o,
     kernel_size |-> k, stride |-> s, padding |-> p]
BatchNorm2d(f) == [type |-> "BatchNorm2d", num_features |-> f]
LeakyReLU == [type |-> "LeakyReLU"]
Linear(i, o) == [type |-> "Linear", in_features |-> i, out_features |-> o]
Sigmoid == [type |-> "Sigmoid"]
Softmax(d) == [type |-> "Softmax", dim |-> d]
AvgPool2d(k) == [type |-> "AvgPool2d", kernel_size |-> k]
Flatten == [type |-> "Flatten"]

\* ---- the sub-modules built by __init__ ----
layer1 == <<Conv2d(3, 64, 4, 2, 1), LeakyReLU>>
layer2 == <<Conv2d(64, 128, 4, 2, 1), BatchNorm2d(128), LeakyReLU>>
layer3 == <<Conv2d(128, 256, 4, 2, 1), BatchNorm2d(256), LeakyReLU>>
layer4 == <<Conv2d(256, 512, 4, 2, 1), BatchNorm2d(512), LeakyReLU>>
layer5_article == <<Conv2d(512, 512, 4, 2, 1), BatchNorm2d(512), LeakyReLU>>
layer5 == <<Conv2d(512, 512, 3, 1, 1), BatchNorm2d(512), LeakyReLU>>
probabilities_two_out == <<Linear(512, 2), Sigmoid>>
probabilities == <<Linear(512, 1), Sigmoid>>
styles_dim1 == <<Linear(512, style_classes), Softmax(1)>>
styles == <<Linear(512, style_classes), Softmax(0)>>

\* the list display_gradients enumerates; forward uses entries 1..5 as stages
Layers == <<layer1, layer2, layer3, layer4, layer5, probabilities, styles>>

\* ---- shapes ----
Error == <<>>        \* the module raised instead of returning a tensor

\* Conv2d / AvgPool2d output extent
ConvOut(in, k, s, p) == ((in + 2 * p - k) \div s) + 1

RECURSIVE Prod(_)
Prod(s) == IF s = <<>> THEN 1 ELSE Head(s) * Prod(Tail(s))

\* shape of m(x), x a full shape <<N, ...>>; tr is the module's training flag
ModuleOut(m, tr, x) ==
    CASE m.type = "Conv2d" ->
           IF Len(x) = 4 /\ x[2] = m.in_channels
              /\ x[3] + 2 * m.padding >= m.kernel_size
              /\ x[4] + 2 * m.padding >= m.kernel_size
           THEN <<x[1], m.out_channels,
                  ConvOut(x[3], m.kernel_size, m.stride, m.padding),
                  ConvOut(x[4], m.kernel_size, m.stride, m.padding)>>
           ELSE Error
      [] m.type = "BatchNorm2d" ->
           IF Len(x) = 4 /\ x[2] = m.num_features
              /\ ~(tr /\ x[1] * x[3] * x[4] = 1)
           THEN x ELSE Error
      [] m.type = "Linear" ->
           IF Len(x) >= 1 /\ x[Len(x)] = m.in_features
           THEN [x EXCEPT ![Len(x)] = m.out_features] ELSE Error
      [] m.type = "AvgPool2d" ->
           IF Len(x) = 4 /\ x[3] >= m.kernel_size /\ x[4] >= m.kernel_size
           THEN <<x[1], x[2],
                  ConvOut(x[3], m.kernel_size, m.kernel_size, 0),
                  ConvOut(x[4], m.kernel_size, m.kernel_size, 0)>>
           ELSE Error
      [] m.type = "Flatten" ->
           IF Len(x) >= 2 THEN <<x[1], Prod(Tail(x))>> ELSE Error
      [] m.type = "Softmax" ->
           IF m.dim < Len(x) THEN x ELSE Error
      [] OTHER -> x      \* LeakyReLU, Sigmoid: elementwise

\* nn.Sequential
RECURSIVE Sequential(_, _, _)
Sequential(mods, tr, x) ==
    IF mods = <<>> THEN x
    ELSE LET y == ModuleOut(Head(mods), tr, x) IN
         IF y = Error THEN Error ELSE Sequential(Tail(mods), tr, y)

\* ---- parameters ----
ParamCount(m) == IF m.type \in {"Conv2d", "BatchNorm2d", "Linear"} THEN 2 ELSE 0

RECURSIVE NumParameters(_)
NumParameters(mods) ==
    IF mods = <<>> THEN 0 ELSE ParamCount(Head(mods)) + NumParameters(Tail(mods))

\* <<i, j>> as display_gradients enumerates them (both 0-based)
ParamIds ==
    LET layers == Layers IN
    UNION {{<<i - 1, j - 1>> : j \in 1..NumParameters(layers[i])} : i \in 1..Len(layers)}

HasBN(i) == \E n \in 1..Len(Layers[i]) : Layers[i][n].type = "BatchNorm2d"
BNLayers == {i \in 1..5 : HasBN(i)}

\* ---- forward ----
\* the shapes the assertions after layer1..layer5 demand
StageExpect == << <<64, 128, 128>>, <<128, 64, 64>>, <<256, 32, 32>>,
                  <<512, 16, 16>>, <<512, 16, 16>> >>

Failure(status, at, ran, shapes) ==
    [status |-> status, failedAt |-> at, ran |-> ran, shapes |-> shapes,
     flatten |-> <<>>, probabilities |-> <<>>, styles |-> <<>>, graph |-> FALSE]

\* the first assertion of forward
InputCheck_channels_only(x) == Len(x) = 4 /\ x[2] = 3
InputCheck(x) == Tail(x) = <<3, 256, 256>>

\* pooling, flatten and the two heads, x the output of layer5
Heads(x, tr, shapes) ==
    LET pooled == ModuleOut(AvgPool2d(16), tr, x)
        flatten == IF pooled = Error THEN Error ELSE ModuleOut(Flatten, tr, pooled)
        p == Sequential(probabilities, tr, flatten)
        s == Sequential(styles, tr, flatten)
    IN  IF flatten = Error THEN Failure("error", 6, 5, shapes)
        ELSE IF Tail(flatten) # <<512>> THEN Failure("assert", 6, 5, shapes)
        ELSE IF p = Error THEN Failure("error", 7, 5, shapes)
        ELSE IF Tail(p) # <<1>> THEN Failure("assert", 7, 5, shapes)
        ELSE IF s = Error THEN Failure("error", 8, 5, shapes)
        ELSE IF Tail(s) # <<style_classes>> THEN Failure("assert", 8, 5, shapes)
        ELSE [status |-> "ok", failedAt |-> -1, ran |-> 5, shapes |-> shapes,
              flatten |-> flatten, probabilities |-> p, styles |-> s, graph |-> TRUE]

\* layer i .. layer5, each followed by its assertion; then the heads
RECURSIVE RunStages(_, _, _, _)
RunStages(i, x, tr, shapes) ==
    IF i > 5 THEN Heads(x, tr, shapes)
    ELSE LET y == Sequential(Layers[i], tr, x) IN
         IF y = Error THEN Failure("error", i, i - 1, shapes)
         ELSE IF Tail(y) # StageExpect[i]
              THEN Failure("assert", i, i, Append(shapes, y))
              ELSE RunStages(i + 1, y, tr, Append(shapes, y))

forward(x, tr) ==
    IF ~InputCheck(x) THEN Failure("assert", 0, 0, <<>>)
    ELSE RunStages(1, x, tr, <<>>)

\* BatchNorm2d buffers of layer l after a forward that ran layers 1..ran
BNUpdate_any_mode(tr, l, ran, old) == IF l <= ran THEN old + 1 ELSE old
BNUpdate(tr, l, ran, old) == IF tr /\ l <= ran THEN old + 1 ELSE old

\* ---- autograd: the layers a loss on the given output(s) reaches ----
GraphLayers_styles_detached(loss) ==
    (0..4) \cup (IF loss \in {"combined", "probabilities"} THEN {5} ELSE {})
GraphLayers_outputs_swapped(loss) ==
    (0..4) \cup (IF loss \in {"combined", "styles"} THEN {5} ELSE {})
           \cup (IF loss \in {"combined", "probabilities"} THEN {6} ELSE {})
GraphLayers(loss) ==
    (0..4) \cup (IF loss \in {"combined", "probabilities"} THEN {5} ELSE {})
           \cup (IF loss \in {"combined", "styles"} THEN {6} ELSE {})

Losses == {"combined", "probabilities", "styles"}

\* ---- display_gradients ----
\* enumerate(layers) x enumerate(layer.parameters()), i the index of Head(layers)
RECURSIVE ParamOrderFrom(_, _)
ParamOrderFrom(layers, i) ==
    IF layers = <<>> THEN <<>>
    ELSE [j \in 1..NumParameters(Head(layers)) |-> <<i, j - 1>>]
         \o ParamOrderFrom(Tail(layers), i + 1)

ParamOrder == ParamOrderFrom(Layers, 0)

\* position of the first parameter whose grad is None, 0 if there is none
FirstNone_skips(order, g) == 0
FirstNone(order, g) ==
    IF \E n \in 1..Len(order) : ~g[order[n]]
    THEN CHOOSE n \in 1..Len(order) :
            ~g[order[n]] /\ \A m \in 1..(n - 1) : g[order[m]]
    ELSE 0

Display(g) ==
    LET n == FirstNone(ParamOrder, g) IN
    IF n = 0 THEN [status |-> "ok", visited |-> ParamOrder]
    ELSE [status |-> "assert", visited |-> SubSeq(ParamOrder, 1, n)]

\* ---- values of the two heads (exact rationals <<num, den>>) ----
RECURSIVE Pow2(_)
Pow2(n) == IF n <= 0 THEN 1 ELSE 2 * Pow2(n - 1)

RECURSIVE SumSeq(_)
SumSeq(s) == IF s = <<>> THEN 0 ELSE Head(s) + SumSeq(Tail(s))

MinOf(s) == CHOOSE v \in {s[n] : n \in DOMAIN s} : \A n \in DOMAIN s : v <= s[n]

\* logits on which the floating-point logistic is not yet rounded to 0 or 1
ExactLogits == -2..2

SigmoidVal_tanh(z) ==
    IF z > 0 THEN <<Pow2(2 * z) - 1, Pow2(2 * z) + 1>>
    ELSE <<1 - Pow2(-2 * z), Pow2(-2 * z) + 1>>
SigmoidVal(z) ==
    IF z \notin ExactLogits THEN (IF z > 0 THEN <<1, 1>> ELSE <<0, 1>>)
    ELSE IF z >= 0 THEN <<Pow2(z), Pow2(z) + 1>>
    ELSE <<1, 1 + Pow2(-z)>>

\* softmax of the N x K matrix z along dim (0: batch axis, 1: class axis)
SoftmaxVal(dim, z) ==
    [n \in DOMAIN z |-> [c \in DOMAIN z[n] |->
        LET axis == IF dim = 0 THEN [i \in DOMAIN z |-> z[i][c]] ELSE z[n]
            lo == MinOf(axis)
        IN  <<Pow2(z[n][c] - lo),
              SumSeq([i \in DOMAIN axis |-> Pow2(axis[i] - lo)])>>]]

\* value of a head on the logits z its Linear module produced
HeadValue(layer, z) ==
    LET act == layer[Len(layer)] IN
    CASE act.type = "Sigmoid" ->
           [n \in DOMAIN z |-> [c \in DOMAIN z[n] |-> SigmoidVal(z[n][c])]]
      [] act.type = "Softmax" -> SoftmaxVal(act.dim, z)
      [] OTHER -> [n \in DOMAIN z |-> [c \in DOMAIN z[n] |-> <<z[n][c], 1>>]]

\* ---- inputs ----
ClassArgs == -1..MaxClasses
ImageShapes == {<<3, 256, 256>>, <<4, 256, 256>>, <<3, 128, 128>>, <<3, 256, 128>>}
Inputs == {<<n>> \o img : n \in 1..MaxBatch, img \in ImageShapes}
ProbLogits == {-9, -1, 0, 2, 9}
StyleLogits == {-1, 0, 1}

NoForward ==
    [status |-> "none", failedAt |-> -1, ran |-> 0, shapes |-> <<>>,
     flatten |-> <<>>, probabilities |-> <<>>, styles |-> <<>>,
     input |-> <<>>, graph |-> FALSE]
NoDisplay == [status |-> "none", visited |-> <<>>]
NoHead == [kind |-> "none", z |-> <<>>, out |-> <<>>, done |-> FALSE]

\* ---- the life cycle of one Discriminator ----
Init ==
    /\ obj = "none"
    /\ style_classes = 0
    /\ training = TRUE
    /\ params = [p \in ParamIds |-> "initial"]
    /\ bn = [l \in BNLayers |-> 0]
    /\ grads = [p \in ParamIds |-> FALSE]
    /\ backs = {}
    /\ fwd = NoForward
    /\ disp = NoDisplay
    /\ head = NoHead

\* Discriminator(relu_negative_slope, k): nn.Linear(512, k) raises for k < 0
Construct(k) ==
    /\ obj = "none"
    /\ IF Linear(512, k).out_features < 0
       THEN obj' = "failed" /\ UNCHANGED style_classes
       ELSE obj' = "built" /\ style_classes' = k
    /\ UNCHANGED <<training, params, bn, grads, backs, fwd, disp, head>>

\* self.train() / self.eval()
SetTrain(mode) ==
    /\ obj = "built"
    /\ training # mode
    /\ training' = mode
    /\ UNCHANGED <<obj, style_classes, params, bn, grads, backs, fwd, disp, head>>

Forward(x) ==
    /\ obj = "built"
    /\ training => \A l \in DOMAIN bn : bn[l] < MaxTracked
    /\ UNCHANGED <<disp, obj, style_classes, training, params, grads, backs, head>>
    /\ fwd' = forward(x, training) @@ [input |-> x]
    /\ bn' = [l \in DOMAIN bn |-> BNUpdate(training, l, fwd'.ran, bn[l])]

\* loss.backward() on a loss built from the outputs of the last forward
Backward(loss) ==
    /\ obj = "built"
    /\ fwd.status = "ok" /\ fwd.graph
    /\ LET reached == GraphLayers(loss) IN
         grads' = [p \in DOMAIN grads |-> grads[p] \/ p[1] \in reached]
    /\ backs' = backs \cup {loss}
    /\ fwd' = [fwd EXCEPT !.graph = FALSE]
    /\ UNCHANGED <<obj, style_classes, training, params, bn, disp, head>>

\* the external optimizer: rewrites the parameters that have a gradient
\* (a parameter's value is tracked as "initial" or "stepped")
OptimizerStep ==
    /\ obj = "built"
    /\ ~(\A p \in DOMAIN grads : ~grads[p])
    /\ params' = [p \in DOMAIN params |-> IF grads[p] THEN "stepped" ELSE params[p]]
    /\ UNCHANGED <<obj, style_classes, training, bn, grads, backs, fwd, disp, head>>

display_gradients ==
    /\ obj = "built"
    /\ UNCHANGED <<fwd, bn, obj, style_classes, training, params, grads, backs, head>>
    /\ disp' = Display(grads)

ForwardStep == \E x \in Inputs : Forward(x)

Next ==
    \/ \E k \in ClassArgs : Construct(k)
    \/ \E mode \in BOOLEAN : SetTrain(mode)
    \/ ForwardStep
    \/ \E loss \in Losses : Backward(loss)
    \/ OptimizerStep
    \/ display_gradients

Spec == Init /\ [][Next]_vars

\* ---- the heads as functions of the logits ----
HeadInputs(k) ==
    {[kind |-> "probabilities", z |-> z, out |-> <<>>, done |-> FALSE] :
        z \in UNION {[1..n -> [1..1 -> ProbLogits]] : n \in 1..MaxBatch}}
    \cup
    {[kind |-> "styles", z |-> z, out |-> <<>>, done |-> FALSE] :
        z \in UNION {[1..n -> [1..k -> StyleLogits]] : n \in 1..MaxBatch}}

InitHeads ==
    /\ obj = "built"
    /\ style_classes \in 1..MaxClasses
    /\ training = TRUE
    /\ params = [p \in ParamIds |-> "initial"]
    /\ bn = [l \in BNLayers |-> 0]
    /\ grads = [p \in ParamIds |-> FALSE]
    /\ backs = {}
    /\ fwd = NoForward
    /\ disp = NoDisplay
    /\ head \in HeadInputs(style_classes)

\* probabilities = self.probabilities(flatten)
ApplyProbabilities ==
    /\ head.kind = "probabilities" /\ ~head.done
    /\ head' = [head EXCEPT !.out = HeadValue(probabilities, head.z), !.done = TRUE]
    /\ UNCHANGED <<obj, style_classes, training, params, bn, grads, backs, fwd, disp>>

\* styles = self.styles(flatten)
ApplyStyles ==
    /\ head.kind = "styles" /\ ~head.done
    /\ head' = [head EXCEPT !.out = HeadValue(styles, head.z), !.done = TRUE]
    /\ UNCHANGED <<obj, style_classes, training, params, bn, grads, backs, fwd, disp>>

NextHeads == ApplyProbabilities \/ ApplyStyles

SpecHeads == InitHeads /\ [][NextHeads]_vars

\* ---- properties ----
ValidImage == <<3, 256, 256>>

\* the step is a call forward(x)
ForwardOn(x) == x = fwd'.input /\ Forward(x)

\* C1: for every batch size N >= 1 and style_classes = k >= 1, forward on an
\* input of shape (N, 3, 256, 256) passes every assertion and returns a pair
\* of shapes (N, 1) and (N, k).
C1_ForwardShapes ==
    (fwd.status # "none" /\ Tail(fwd.input) = ValidImage
        /\ fwd.input[1] >= 1 /\ style_classes >= 1)
    => /\ fwd.status = "ok"
       /\ fwd.probabilities = <<fwd.input[1], 1>>
       /\ fwd.styles = <<fwd.input[1], style_classes>>

C1_Witness ==
    /\ fwd.status = "ok"
    /\ fwd.input[1] = MaxBatch
    /\ style_classes = MaxClasses
    /\ fwd.styles = <<MaxBatch, MaxClasses>>

\* C2: forward on an input whose dimensions after the batch axis are not
\* (3, 256, 256) fails at the first assertion, before layer1 or any later
\* stage is applied, and leaves every parameter and batch-norm buffer unchanged.
C2_BadInputFailsFirst ==
    [][\A x \in Inputs :
          (Tail(x) # ValidImage /\ ForwardOn(x))
          => /\ fwd'.status = "assert"
             /\ fwd'.failedAt = 0
             /\ fwd'.ran = 0
             /\ fwd'.shapes = <<>>
             /\ UNCHANGED <<params, bn>>]_vars

C2_Witness ==
    /\ fwd.status = "assert"
    /\ fwd.failedAt = 0
    /\ training
    /\ Tail(fwd.input) = <<3, 128, 128>>

C4_ConstructionRejectsNoClasses ==
    obj = "built" => style_classes >= 1

\* C5: after a successful forward and a backward of a loss combining both
\* outputs, display_gradients visits every parameter of layer1..layer5,
\* probabilities and styles and completes without its assertion failing.
C5_DisplayAfterCombinedBackward ==
    [][(display_gradients /\ "combined" \in backs)
       => /\ disp'.status = "ok"
          /\ {disp'.visited[n] : n \in 1..Len(disp'.visited)} = ParamIds
          /\ Len(disp'.visited) = Cardinality(ParamIds)]_vars

C5_Witness ==
    /\ disp.status = "ok"
    /\ backs = {"combined"}
    /\ style_classes >= 1

\* the order the claim C6 gives: layer index 0..6, parameters in declaration
\* order within each
ExpectedOrder ==
    << <<0, 0>>, <<0, 1>>,
       <<1, 0>>, <<1, 1>>, <<1, 2>>, <<1, 3>>,
       <<2, 0>>, <<2, 1>>, <<2, 2>>, <<2, 3>>,
       <<3, 0>>, <<3, 1>>, <<3, 2>>, <<3, 3>>,
       <<4, 0>>, <<4, 1>>, <<4, 2>>, <<4, 3>>,
       <<5, 0>>, <<5, 1>>,
       <<6, 0>>, <<6, 1>> >>

NoneAt(g) == {n \in 1..Len(ExpectedOrder) : ~g[ExpectedOrder[n]]}

\* C6: display_gradients goes through the parameters in the order layer1,
\* ..., layer5, probabilities, styles and fails iff some parameter has no
\* gradient; it fails at the first such parameter, after printing it, and
\* visits nothing after it.  Before any backward it fails at the first
\* parameter of layer1.
C6_DisplayFailsAtFirstNone ==
    [][display_gradients
       => /\ disp'.status = "assert" <=> NoneAt(grads) # {}
          /\ disp'.status = "ok" <=> NoneAt(grads) = {}
          /\ NoneAt(grads) = {} => disp'.visited = ExpectedOrder
          /\ \A n \in NoneAt(grads) :
                (\A m \in NoneAt(grads) : n <= m)
                => disp'.visited = SubSeq(ExpectedOrder, 1, n)
          /\ backs = {} => disp'.visited = << <<0, 0>> >>]_vars

C6_Witness ==
    /\ disp.status = "assert"
    /\ disp.visited = << <<0, 0>> >>
    /\ backs = {}

\* sum of a sequence of rationals <<num, den>>
RECURSIVE FracSum(_)
FracSum(s) ==
    IF s = <<>> THEN <<0, 1>>
    ELSE LET r == FracSum(Tail(s)) IN
         <<Head(s)[1] * r[2] + r[1] * Head(s)[2], Head(s)[2] * r[2]>>

IsOne(q) == q[2] > 0 /\ q[1] = q[2]

\* C7: the style output is normalised along the batch axis: for every class
\* index c the values of the N examples at c sum to 1 (the values of one
\* example need not sum to 1: see the witness).
C7_StylesSumOverBatch ==
    (head.kind = "styles" /\ head.done)
    => \A c \in 1..style_classes :
          IsOne(FracSum([n \in DOMAIN head.out |-> head.out[n][c]]))

C7_Witness ==
    /\ head.kind = "styles" /\ head.done
    /\ Len(head.out) >= 2
    /\ style_classes >= 2
    /\ \E n \in DOMAIN head.out : ~IsOne(FracSum(head.out[n]))

\* C8: every realism probability returned by forward lies in [0, 1].
C8_ProbabilityRange ==
    (head.kind = "probabilities" /\ head.done)
    => \A n \in DOMAIN head.out :
          /\ Len(head.out[n]) = 1
          /\ head.out[n][1][2] > 0
          /\ 0 <= head.out[n][1][1]
          /\ head.out[n][1][1] <= head.out[n][1][2]

C8_Witness ==
    /\ head.kind = "probabilities" /\ head.done
    /\ \E n \in DOMAIN head.out : head.out[n][1] = <<1, 1>>
    /\ \E n \in DOMAIN head.out : head.out[n][1] = <<1, 3>>

\* C9: once the input assertion passed, the stages produce 64x128x128,
\* 128x64x64, 256x32x32, 512x16x16 and 512x16x16, pooling and flatten give
\* 512 features per example, and no later shape assertion fails.
C9_StageShapes ==
    (fwd.status # "none" /\ fwd.failedAt # 0)
    => LET n == fwd.input[1] IN
       /\ fwd.shapes = << <<n, 64, 128, 128>>, <<n, 128, 64, 64>>,
                          <<n, 256, 32, 32>>, <<n, 512, 16, 16>>,
                          <<n, 512, 16, 16>> >>
       /\ fwd.flatten = <<n, 512>>
       /\ fwd.failedAt = -1
       /\ fwd.status = "ok"

C9_Witness ==
    /\ fwd.status = "ok"
    /\ Len(fwd.shapes) = 5
    /\ fwd.shapes[5] = <<1, 512, 16, 16>>
    /\ fwd.flatten = <<1, 512>>

\* the parameters of layer1..layer5, in the order of display_gradients
TrunkOrder == SubSeq(ExpectedOrder, 1, 18)

\* C10: when every backward so far used a loss on the style output only,
\* display_gradients fails at the first parameter of probabilities (layer
\* index 5); when every backward used a loss on the probabilities only, it
\* fails at the first parameter of styles (layer index 6); in both cases
\* after all parameters of layer1..layer5 were visited.
C10_OneHeadLoss ==
    [][display_gradients
       => /\ backs = {"styles"}
                => /\ disp'.status = "assert"
                   /\ disp'.visited = TrunkOrder \o << <<5, 0>> >>
          /\ backs = {"probabilities"}
                => /\ disp'.status = "assert"
                   /\ disp'.visited = TrunkOrder \o << <<5, 0>>, <<5, 1>>, <<6, 0>> >>]_vars

C10_Witness ==
    /\ disp.status = "assert"
    /\ backs = {"styles"}
    /\ disp.visited[Len(disp.visited)] = <<5, 0>>
    /\ Len(disp.visited) = 19
====
